---- MODULE Spec2Model ----
(***************************************************************************)
(* Playback-synchronized hydration engine of the Semantic Subtitle         *)
(* Translator content script (src/frontend/content.js).                    *)
(*                                                                         *)
(* The JS `state` object, the overlay DOM, the pending fetches and the     *)
(* pending setTimeout callbacks are the variables.  Every handler of the   *)
(* script is an operator from a world record to a world record, composed   *)
(* exactly as the handler calls its helpers; an action commits the world   *)
(* a handler returns.                                                      *)
(*                                                                         *)
(* The script only ever tests differences of clock readings               *)
(* (now - lastTickAt, Date.now() - hit.ts, the delay of a setTimeout), so  *)
(* the model keeps the differences: the age of the last tick, the age of   *)
(* every cache entry and the time left of every timer, each capped where   *)
(* the script stops telling values apart.  Time is counted in model units: *)
(* the delays of the script are scaled down, as are the cache capacity     *)
(* (500) and the attach retry count (20).                                  *)
(***************************************************************************)
EXTENDS Integers, Sequences, FiniteSets, TLC

\* ------------------------------------------------------------------------
\* Scaled program constants and model bounds
\* ------------------------------------------------------------------------
\* setTimeout(wait, 150): delay between two attach probes
ATTACH_DELAY == 1
\* 1000 / SST.TICK_HZ: minimum distance of two processed ticks
TICK_INTERVAL == 1
\* setTimeout(() => setState(ACTIVE), 1200): error recovery delay
RECOVERY_DELAY == 1
\* SST.CACHE_TTL_MS
CACHE_TTL_MS == 1
\* `state.cache.size > 500`
CACHE_MAX == 2
\* `const MAX = 20` in tryStartActive
MAX == 2
\* playback positions per second (currentTime is fractional)
PosPerSec == 2
\* last playback position of the model
MaxPos == 4
\* fetches that may be pending on the network at once (aborted ones included)
MaxReqs == 2
\* pending recovery timers
MaxTimers == 1
\* pending attach-probe timers
MaxWaits == 1
\* last playback position of a window handed to renderFromWindow directly
RenderMax == 6
\* lines of such a window
MaxLines == 2

\* SST.CHUNK_AHEAD_SEC
CHUNK_AHEAD_SEC == 2
\* SST.WINDOW_SEC
WINDOW_SEC == 6

Vids == {"v1", "v2"}
Langs == {"en", "fr"}
Hints == {"h"}
Positions == 0..MaxPos
ReqIds == 1..MaxReqs
\* location.href, reduced to the page it names
Hrefs == Vids

\* Age of a reading of 0 of performance.now(): the page has been loaded for
\* at least one tick interval when the first message or player event arrives.
LongAgo == TICK_INTERVAL

MODES == [IDLE |-> "idle", ACTIVE |-> "active", ERROR |-> "error"]

VARIABLES
  mode, enabled, language, hint, videoEl, overlayEl, lastUrl, videoId,
  tickAge, inflight, cache,
  caption, anonListeners,
  href,
  reqs, recTimers, waits,
  acceptAge, fx, call

vars == <<mode, enabled, language, hint, videoEl, overlayEl, lastUrl, videoId,
          tickAge, inflight, cache, caption, anonListeners, href,
          reqs, recTimers, waits, acceptAge, fx, call>>

\* ------------------------------------------------------------------------
\* Values
\* ------------------------------------------------------------------------
\* `null` for state.videoId
NoVid == "null"
\* `null` for state.inflight
NoInflight == [ctrl |-> 0, kind |-> "none"]
\* '' for the caption text
NoText == <<>>
NoKey == [vid |-> NoVid, lang |-> "", bucket |-> 0]
NoData == [vid |-> NoVid, lang |-> ""]
\* a free slot of the network
FreeReq == [stage |-> "free", aborted |-> FALSE, ckey |-> NoKey, t |-> 0,
            tlang |-> "", overtaken |-> FALSE]
\* a fetch whose signal was aborted: it will reject with AbortError whatever
\* it was fetching
AbortedReq == [FreeReq EXCEPT !.stage = "aborted", !.aborted = TRUE]

\* what the handler that ran last did (observation only; no handler reads
\* it): the calls it made, and the key of its cache lookup or cache write
NoFx == [did |-> {}, key |-> NoKey]

Note(w, tag) == [w EXCEPT !.fx.did = @ \cup {tag}]

\* reqs[r].overtaken: the caption was set, by a tick or by the pause listener,
\* after the tick that started request r (observation only, kept by the
\* specification OrderSpec)
Overtake(w) ==
  [w EXCEPT !.reqs = [r \in ReqIds |->
                        IF @[r].stage \in {"chunks", "translate"}
                        THEN [@[r] EXCEPT !.overtaken = TRUE] ELSE @[r]]]

\* the arguments of the last call of renderFromWindow made on a window that
\* did not come from the backend (observation only)
NoCall == [lines |-> <<>>, t |-> 0, made |-> FALSE]

\* ------------------------------------------------------------------------
\* The world a handler runs on
\* ------------------------------------------------------------------------
World ==
  [mode |-> mode, enabled |-> enabled, language |-> language, hint |-> hint,
   videoEl |-> videoEl, overlayEl |-> overlayEl, lastUrl |-> lastUrl,
   videoId |-> videoId, tickAge |-> tickAge, inflight |-> inflight,
   cache |-> cache, caption |-> caption, anonListeners |-> anonListeners,
   href |-> href, reqs |-> reqs, recTimers |-> recTimers,
   waits |-> waits, acceptAge |-> acceptAge, fx |-> NoFx, call |-> call]

Commit(w) ==
  /\ mode' = w.mode
  /\ enabled' = w.enabled
  /\ language' = w.language
  /\ hint' = w.hint
  /\ videoEl' = w.videoEl
  /\ overlayEl' = w.overlayEl
  /\ lastUrl' = w.lastUrl
  /\ videoId' = w.videoId
  /\ tickAge' = w.tickAge
  /\ inflight' = w.inflight
  /\ cache' = w.cache
  /\ caption' = w.caption
  /\ anonListeners' = w.anonListeners
  /\ href' = w.href
  /\ reqs' = w.reqs
  /\ recTimers' = w.recTimers
  /\ waits' = w.waits
  /\ acceptAge' = w.acceptAge
  /\ fx' = w.fx
  /\ call' = w.call

\* ------------------------------------------------------------------------
\* DOM discovery & overlay
\* ------------------------------------------------------------------------
getVideoIdFromUrl(h) == IF h \in Vids THEN h ELSE NoVid

\* The caption element exists exactly while the overlay is in the document.
setCaptionText(w, text) ==
  LET w1 == Note(w, "render")
  IN IF w1.overlayEl THEN [w1 EXCEPT !.caption = text] ELSE w1

\* ------------------------------------------------------------------------
\* Cache: a JS Map, i.e. entries in insertion order of their keys
\* ------------------------------------------------------------------------
cacheKey(vid, lang, tSec) == [vid |-> vid, lang |-> lang, bucket |-> tSec \div PosPerSec]

KeyIndex(c, key) ==
  IF \E i \in 1..Len(c) : c[i].key = key
  THEN CHOOSE i \in 1..Len(c) : c[i].key = key
  ELSE 0

Remove(c, i) == [j \in 1..(Len(c) - 1) |-> IF j < i THEN c[j] ELSE c[j + 1]]

\* cacheGet without the TTL test
cacheGet_NoTtl(w, key) ==
  LET i == KeyIndex(w.cache, key)
      w1 == [Note(w, "lookup") EXCEPT !.fx.key = key]
  IN IF i = 0 THEN [w |-> w1, found |-> FALSE, data |-> NoData]
     ELSE [w |-> Note(w1, "hit"), found |-> TRUE, data |-> w1.cache[i].data]

\* returns the world after the lookup and the data (found = FALSE for null)
cacheGet(w, key) ==
  LET i == KeyIndex(w.cache, key)
      w1 == [Note(w, "lookup") EXCEPT !.fx.key = key]
  IN IF i = 0 THEN [w |-> w1, found |-> FALSE, data |-> NoData]
     ELSE IF w1.cache[i].age > CACHE_TTL_MS
          THEN [w |-> [Note(w1, "expire") EXCEPT !.cache = Remove(@, i)],
                found |-> FALSE, data |-> NoData]
          ELSE [w |-> Note(w1, "hit"), found |-> TRUE, data |-> w1.cache[i].data]

\* cacheSet trimming at the wrong end of the Map
cacheSet_EvictsNewest(w, key, data) ==
  LET i == KeyIndex(w.cache, key)
      e == [key |-> key, age |-> 0, data |-> data]
      c1 == IF i = 0 THEN Append(w.cache, e) ELSE [w.cache EXCEPT ![i] = e]
      trim == Len(c1) > CACHE_MAX
      c2 == IF trim THEN SubSeq(c1, 1, Len(c1) - 1) ELSE c1
  IN [(IF trim THEN Note(Note(w, "write"), "evict") ELSE Note(w, "write"))
        EXCEPT !.cache = c2, !.fx.key = key]

\* Map.set keeps the place of a key that is present; keys().next() is the
\* first key in insertion order
cacheSet(w, key, data) ==
  LET i == KeyIndex(w.cache, key)
      e == [key |-> key, age |-> 0, data |-> data]
      c1 == IF i = 0 THEN Append(w.cache, e) ELSE [w.cache EXCEPT ![i] = e]
      trim == Len(c1) > CACHE_MAX
      c2 == IF trim THEN Tail(c1) ELSE c1
  IN [(IF trim THEN Note(Note(w, "write"), "evict") ELSE Note(w, "write"))
        EXCEPT !.cache = c2, !.fx.key = key]


\* ------------------------------------------------------------------------
\* Backend (external): the transcript of a video and its translation
\* ------------------------------------------------------------------------
\* lines in playback positions, sorted by start, non-overlapping
Transcript(vid) == << [start |-> 1, end |-> 2, text |-> <<vid, "L1">>] >>

\* GET /chunks: the lines within [t - window/2, t + window/2]
FetchLines(vid, t) ==
  LET half == (WINDOW_SEC * PosPerSec) \div 2
  IN SelectSeq(Transcript(vid),
               LAMBDA ln : ln.end > t - half /\ ln.start < t + half)

\* POST /translate: same lines, text replaced by its translation
Translate(lines, lang) ==
  [i \in 1..Len(lines) |-> [lines[i] EXCEPT !.text = @ \o <<lang>>]]

\* the translated window a cache entry or a response stands for
LinesOf(data, t) == Translate(FetchLines(data.vid, t), data.lang)

\* ------------------------------------------------------------------------
\* Playback & hydration
\* ------------------------------------------------------------------------
\* renderFromWindow with the end of a line included in its span
renderFromWindow_EndIncluded(w, lines, t) ==
  LET spans == {i \in 1..Len(lines) : t >= lines[i].start /\ t <= lines[i].end}
      ahead == {i \in 1..Len(lines) :
                  /\ lines[i].start - t <= CHUNK_AHEAD_SEC * PosPerSec
                  /\ lines[i].start > t}
      Min(S) == CHOOSE i \in S : \A j \in S : i <= j
  IN IF spans # {} THEN setCaptionText(w, lines[Min(spans)].text)
     ELSE IF ahead # {} THEN setCaptionText(w, lines[Min(ahead)].text)
     ELSE setCaptionText(w, NoText)

renderFromWindow(w, lines, t) ==
  LET spans == {i \in 1..Len(lines) : t >= lines[i].start /\ t < lines[i].end}
      ahead == {i \in 1..Len(lines) :
                  /\ lines[i].start - t <= CHUNK_AHEAD_SEC * PosPerSec
                  /\ lines[i].start > t}
      Min(S) == CHOOSE i \in S : \A j \in S : i <= j
  IN IF spans # {} THEN setCaptionText(w, lines[Min(spans)].text)
     ELSE IF ahead # {} THEN setCaptionText(w, lines[Min(ahead)].text)
     ELSE setCaptionText(w, NoText)

\* the slot is cleared but the controller is not aborted
abortInflight_Forgets(w) ==
  IF w.inflight = NoInflight THEN w
  ELSE [Note(w, "abort") EXCEPT !.inflight = NoInflight]

\* state.inflight.ctrl.abort(); state.inflight = null
abortInflight(w) ==
  IF w.inflight = NoInflight THEN w
  ELSE LET c == w.inflight.ctrl
       IN [Note(w, "abort") EXCEPT
             !.reqs = [r \in ReqIds |->
                         IF r = c /\ @[r].stage # "free"
                         THEN AbortedReq ELSE @[r]],
             !.inflight = NoInflight]

FreeIds(w) == {r \in ReqIds : w.reqs[r].stage = "free"}

\* new AbortController(); fetchWindowChunks(vid, t, ctrl.signal)
startHydration(w, ckey, t) ==
  IF FreeIds(w) = {} THEN Note(w, "overflow")
  ELSE LET rid == CHOOSE r \in FreeIds(w) : \A q \in FreeIds(w) : r <= q
       IN [Note(w, "fetch") EXCEPT
             !.inflight = [ctrl |-> rid, kind |-> "chunks"],
             !.reqs[rid] = [stage |-> "chunks", aborted |-> FALSE, ckey |-> ckey,
                            t |-> t, tlang |-> "", overtaken |-> FALSE]]

\* onTimeTick cancelling the request in flight when an ad plays
onTimeTick_AdCancels(w, t, ad) ==
  IF ~w.videoEl \/ w.mode # MODES.ACTIVE THEN w
  ELSE IF w.tickAge < TICK_INTERVAL THEN w
  ELSE LET w1 == Note([w EXCEPT !.tickAge = 0], "accept")
           vid == w1.videoId
       IN IF vid = NoVid THEN w1
          ELSE IF ad THEN setCaptionText(abortInflight(w1), NoText)
          ELSE LET ckey == cacheKey(vid, w1.language, t)
                   got == cacheGet(w1, ckey)
               IN IF got.found THEN renderFromWindow(got.w, LinesOf(got.data, t), t)
                  ELSE startHydration(abortInflight(got.w), ckey, t)

\* t: videoEl.currentTime; ad: isAdPlaying()
onTimeTick(w, t, ad) ==
  IF ~w.videoEl \/ w.mode # MODES.ACTIVE THEN w
  ELSE IF w.tickAge < TICK_INTERVAL THEN w
  ELSE LET w1 == Note([w EXCEPT !.tickAge = 0], "accept")
           vid == w1.videoId
       IN IF vid = NoVid THEN w1
          ELSE IF ad THEN setCaptionText(w1, NoText)
          ELSE LET ckey == cacheKey(vid, w1.language, t)
                   got == cacheGet(w1, ckey)
               IN IF got.found THEN renderFromWindow(got.w, LinesOf(got.data, t), t)
                  ELSE startHydration(abortInflight(got.w), ckey, t)

setState(w, next) == IF w.mode = next THEN w ELSE [w EXCEPT !.mode = next]

\* .then(origLines => ...): the translate stage starts with the settings of now
onChunks(w, r) ==
  [Note(w, "translate") EXCEPT
     !.inflight = [ctrl |-> r, kind |-> "translate"],
     !.reqs[r].stage = "translate",
     !.reqs[r].tlang = w.language]

\* .then(translated => ...)
onTranslated(w, r) ==
  LET q == w.reqs[r]
      data == [vid |-> q.ckey.vid, lang |-> q.tlang]
      w1 == cacheSet(w, q.ckey, data)
      w2 == renderFromWindow(w1, LinesOf(data, q.t), q.t)
  IN [w2 EXCEPT !.inflight = NoInflight, !.reqs[r] = FreeReq]

\* the catch handler treating AbortError like any other error
onHydrationError_AnyError(w, r, errName) ==
  LET w0 == [w EXCEPT !.reqs[r] = FreeReq]
      w1 == Note(setState(w0, MODES.ERROR), "error")
      w2 == setCaptionText(w1, NoText)
  IN [Note(w2, "timer") EXCEPT !.recTimers = Append(@, RECOVERY_DELAY)]

\* the catch handler without the recovery timer
onHydrationError_NoTimer(w, r, errName) ==
  LET w0 == [w EXCEPT !.reqs[r] = FreeReq]
  IN IF errName = "AbortError" THEN Note(w0, "dropped")
     ELSE setCaptionText(Note(setState(w0, MODES.ERROR), "error"), NoText)

\* .catch(err => ...)
onHydrationError(w, r, errName) ==
  LET w0 == [w EXCEPT !.reqs[r] = FreeReq]
  IN IF errName = "AbortError" THEN Note(w0, "dropped")
     ELSE LET w1 == Note(setState(w0, MODES.ERROR), "error")
              w2 == setCaptionText(w1, NoText)
          IN [Note(w2, "timer") EXCEPT
                !.recTimers = Append(@, RECOVERY_DELAY)]

\* how a pending fetch can settle: an aborted fetch rejects with AbortError
Outcomes(q) == IF q.aborted THEN {"AbortError"} ELSE {"ok", "Error"}

\* ------------------------------------------------------------------------
\* Event wiring & lifecycle
\* ------------------------------------------------------------------------
\* found: both the player shell and the video element are in the document
injectIfReady(w, found) ==
  IF ~found THEN w
  ELSE [w EXCEPT !.videoEl = TRUE, !.overlayEl = TRUE, !.anonListeners = TRUE]

\* timeupdate and seeked are removed; the anonymous ratechange, play and pause
\* listeners are not (removeEventListener is given fresh functions)
removeOverlayAndListeners(w) ==
  [w EXCEPT !.videoEl = FALSE, !.overlayEl = FALSE, !.caption = NoText]

stopAll(w) ==
  removeOverlayAndListeners(abortInflight(setState(w, MODES.IDLE)))

\* resetForNavigation without the purge of the previous video's entries
resetForNavigation_NoPurge(w) ==
  LET w1 == stopAll(w)
  IN [Note(w1, "nav") EXCEPT !.videoId = getVideoIdFromUrl(w1.href)]

resetForNavigation(w) ==
  LET w1 == stopAll(w)
      kept == SelectSeq(w1.cache, LAMBDA e : e.key.vid # w1.videoId)
      fresh == \E i \in 1..Len(w1.cache) :
                 w1.cache[i].key.vid = w1.videoId /\ w1.cache[i].age <= CACHE_TTL_MS
      w2 == IF w1.videoId # NoVid
            THEN [(IF fresh THEN Note(w1, "purge") ELSE w1) EXCEPT !.cache = kept]
            ELSE w1
  IN [Note(w2, "nav") EXCEPT !.videoId = getVideoIdFromUrl(w2.href)]

\* one run of the `wait` closure of tryStartActive
wait(w, attempts, found, t, ad) ==
  LET n == attempts + 1
      w1 == injectIfReady(w, found)
  IN IF found THEN onTimeTick([w1 EXCEPT !.tickAge = LongAgo], t, ad)
     ELSE IF n < MAX
          THEN [w1 EXCEPT !.waits = Append(@, [attempts |-> n,
                                               left |-> ATTACH_DELAY])]
          ELSE setState(w1, MODES.ERROR)

tryStartActive(w, found, t, ad) ==
  IF ~w.enabled THEN w
  ELSE wait(setState(w, MODES.ACTIVE), 0, found, t, ad)

onUrlMaybeChanged(w, found, t, ad) ==
  IF w.href = w.lastUrl THEN w
  ELSE LET w1 == [w EXCEPT !.lastUrl = w.href]
       IN IF getVideoIdFromUrl(w1.href) # w1.videoId
          THEN LET w2 == resetForNavigation(w1)
               IN IF w2.enabled /\ w2.mode # MODES.ERROR
                  THEN tryStartActive(w2, found, t, ad)
                  ELSE w2
          ELSE w1

\* ------------------------------------------------------------------------
\* Messaging from popup
\* ------------------------------------------------------------------------
\* a setting the message does not carry
Undefined == "undefined"
\* the values of a setting for which `x || state.x` keeps state.x
Falsy == {"", Undefined}

onSettingsChanged(w, en, lang, hnt, found, t, ad) ==
  LET w1 == [w EXCEPT !.enabled = en,
                      !.language = IF lang \notin Falsy THEN lang ELSE @,
                      !.hint = IF hnt \notin Falsy THEN hnt ELSE @]
  IN IF w1.enabled /\ w1.mode = MODES.IDLE THEN tryStartActive(w1, found, t, ad)
     ELSE IF ~w1.enabled /\ w1.mode # MODES.IDLE THEN stopAll(w1)
     ELSE w1

\* START_TRANSLATION leaving the recovery to its timer while mode is Error
onStartTranslation_WaitsForTimer(w, lang, hnt, found, t, ad) ==
  LET w1 == [w EXCEPT !.enabled = TRUE,
                      !.language = IF lang \notin Falsy THEN lang ELSE @,
                      !.hint = IF hnt \notin Falsy THEN hnt ELSE @,
                      !.videoId = getVideoIdFromUrl(w.href)]
  IN IF w.mode = MODES.ERROR THEN w1 ELSE tryStartActive(w1, found, t, ad)

onStartTranslation(w, lang, hnt, found, t, ad) ==
  LET w1 == [w EXCEPT !.enabled = TRUE,
                      !.language = IF lang \notin Falsy THEN lang ELSE @,
                      !.hint = IF hnt \notin Falsy THEN hnt ELSE @,
                      !.videoId = getVideoIdFromUrl(w.href)]
  IN tryStartActive(w1, found, t, ad)

onStopTranslation(w) == stopAll(w)

\* ------------------------------------------------------------------------
\* Initial state: the script has booted on some page
\* ------------------------------------------------------------------------
Init ==
  /\ href \in Hrefs
  /\ mode = MODES.IDLE
  /\ enabled = FALSE
  /\ language = "en"
  /\ hint = ""
  /\ videoEl = FALSE
  /\ overlayEl = FALSE
  /\ lastUrl = href
  /\ videoId = getVideoIdFromUrl(href)
  /\ tickAge = LongAgo
  /\ inflight = NoInflight
  /\ cache = <<>>
  /\ caption = NoText
  /\ anonListeners = FALSE
  /\ reqs = [r \in ReqIds |-> FreeReq]
  /\ recTimers = <<>>
  /\ waits = <<>>
  /\ acceptAge = LongAgo
  /\ fx = NoFx
  /\ call = NoCall

\* the handler's result stays within the bounds of the model
Fits(w) ==
  /\ "overflow" \notin w.fx.did
  /\ Len(w.waits) <= MaxWaits

Do(w) == Fits(w) /\ Commit(w)

\* the same, for a handler that may start a request: at most n fetches are
\* pending afterwards
DoIn(I, w) ==
  /\ Cardinality({r \in ReqIds : w.reqs[r].stage # "free"}) <= I.pending
  /\ Do(w)

\* ------------------------------------------------------------------------
\* Inputs of the handlers.  I names the values the environment supplies:
\*   I.pos    playback positions (videoEl.currentTime)
\*   I.ads    values of isAdPlaying()
\*   I.found  results of the player probe of injectIfReady
\*   I.langs, I.hints  settings carried by popup messages
\*   I.ens    the enabled flag of SETTINGS_CHANGED
\*   I.pending  how many fetches may be pending at once
\*   I.timers   how many recovery timers may be pending at once
\* ------------------------------------------------------------------------
AllInputs ==
  [pos |-> Positions, ads |-> BOOLEAN, found |-> BOOLEAN,
   langs |-> Langs \cup Falsy, hints |-> Hints \cup Falsy, ens |-> BOOLEAN,
   pending |-> MaxReqs, timers |-> MaxTimers]

\* ------------------------------------------------------------------------
\* Player events
\* ------------------------------------------------------------------------
\* acceptAge: the time since onTimeTick, called by the timeupdate or seeked
\* listener, last went past its throttle (observation only)
Listened(w) == IF "accept" \in w.fx.did THEN [w EXCEPT !.acceptAge = 0] ELSE w

TimeUpdate(I) ==
  /\ videoEl
  /\ \E t \in I.pos, ad \in I.ads :
       DoIn(I, Listened(onTimeTick(World, t, ad)))

Seeked(I) ==
  /\ videoEl
  /\ \E t \in I.pos, ad \in I.ads :
       DoIn(I, Listened(onTimeTick(World, t, ad)))

RateChange(I) ==
  /\ anonListeners
  /\ \E t \in I.pos, ad \in I.ads :
       DoIn(I, onTimeTick([World EXCEPT !.tickAge = LongAgo], t, ad))

Play ==
  /\ anonListeners
  /\ Do(setCaptionText(World, NoText))

\* a pause listener that forces a tick
Pause_Ticks ==
  /\ anonListeners
  /\ Do(onTimeTick([World EXCEPT !.tickAge = LongAgo], 0, FALSE))

Pause ==
  /\ anonListeners
  /\ Do(setCaptionText(World, NoText))

\* ------------------------------------------------------------------------
\* Backend settlements
\* ------------------------------------------------------------------------
ChunksOk ==
  \E r \in ReqIds :
    /\ reqs[r].stage = "chunks"
    /\ "ok" \in Outcomes(reqs[r])
    /\ Do(onChunks(World, r))

TranslateOk ==
  \E r \in ReqIds :
    /\ reqs[r].stage = "translate"
    /\ "ok" \in Outcomes(reqs[r])
    /\ Do(onTranslated(World, r))

HydrationFailed(I) ==
  \E r \in ReqIds :
    /\ Len(recTimers) < I.timers
    /\ reqs[r].stage # "free"
    /\ "Error" \in Outcomes(reqs[r])
    /\ Do(onHydrationError(World, r, "Error"))

HydrationAborted ==
  \E r \in ReqIds :
    /\ reqs[r].stage # "free"
    /\ "AbortError" \in Outcomes(reqs[r])
    /\ Do(onHydrationError(World, r, "AbortError"))

\* ------------------------------------------------------------------------
\* Timers
\* ------------------------------------------------------------------------
RecoveryFire ==
  /\ recTimers # <<>>
  /\ Head(recTimers) = 0
  /\ Do(Note(setState([World EXCEPT !.recTimers = Tail(@)], MODES.ACTIVE),
             "recovered"))

WaitFire(I) ==
  /\ waits # <<>>
  /\ Head(waits).left = 0
  /\ \E found \in I.found, t \in I.pos, ad \in I.ads :
       DoIn(I, wait([World EXCEPT !.waits = Tail(@)],
                    Head(waits).attempts, found, t, ad))

\* one unit of time passes; a timer that is due may still fire late
Older(a, cap) == IF a < cap THEN a + 1 ELSE cap
Less(d) == IF d > 0 THEN d - 1 ELSE 0

Advance ==
  Do([World EXCEPT
        !.tickAge = Older(@, TICK_INTERVAL),
        !.acceptAge = Older(@, TICK_INTERVAL),
        !.cache = [i \in 1..Len(@) |->
                     [@[i] EXCEPT !.age = Older(@, CACHE_TTL_MS + 1)]],
        !.recTimers = [i \in 1..Len(@) |-> Less(@[i])],
        !.waits = [i \in 1..Len(@) |-> [@[i] EXCEPT !.left = Less(@)]]])

\* ------------------------------------------------------------------------
\* Navigation and popup messages
\* ------------------------------------------------------------------------
Navigate ==
  \E h \in Hrefs \ {href} : Do([World EXCEPT !.href = h])

UrlCheck(I) ==
  \E found \in I.found, t \in I.pos, ad \in I.ads :
    DoIn(I, onUrlMaybeChanged(World, found, t, ad))

SettingsChanged(I) ==
  \E en \in I.ens, lang \in I.langs, hnt \in I.hints,
     found \in I.found, t \in I.pos, ad \in I.ads :
    DoIn(I, onSettingsChanged(World, en, lang, hnt, found, t, ad))

StartTranslation(I) ==
  \E lang \in I.langs, hnt \in I.hints,
     found \in I.found, t \in I.pos, ad \in I.ads :
    DoIn(I, onStartTranslation(World, lang, hnt, found, t, ad))

StopTranslation == Do(onStopTranslation(World))

NextOf(I) ==
  \/ TimeUpdate(I)
  \/ Seeked(I)
  \/ RateChange(I)
  \/ Play
  \/ Pause
  \/ ChunksOk
  \/ TranslateOk
  \/ HydrationFailed(I)
  \/ HydrationAborted
  \/ RecoveryFire
  \/ WaitFire(I)
  \/ Advance
  \/ Navigate
  \/ UrlCheck(I)
  \/ SettingsChanged(I)
  \/ StartTranslation(I)
  \/ StopTranslation

\* The engine with the language and hint left at their defaults: popup
\* messages carry no language and no hint.
EngineInputs ==
  [AllInputs EXCEPT !.langs = {Undefined}, !.hints = {Undefined}, !.pos = {0}]

Next == NextOf(EngineInputs)

Spec == Init /\ [][Next]_vars

\* The engine on one page with a player that is always found, playing through
\* three cache buckets, with one fetch pending at a time: the cache fills up.
\* seeked runs the same listener as timeupdate, and play and pause touch only
\* the caption, so they are left out.
CacheInputs ==
  [EngineInputs EXCEPT !.pos = {0, PosPerSec, 2 * PosPerSec}, !.ads = {FALSE},
                       !.found = {TRUE}, !.ens = {TRUE}, !.pending = 1]

CacheNext ==
  \/ TimeUpdate(CacheInputs)
  \/ RateChange(CacheInputs)
  \/ ChunksOk
  \/ TranslateOk
  \/ HydrationFailed(CacheInputs)
  \/ HydrationAborted
  \/ RecoveryFire
  \/ Advance
  \/ Navigate
  \/ UrlCheck(CacheInputs)
  \/ SettingsChanged(CacheInputs)
  \/ StartTranslation(CacheInputs)
  \/ StopTranslation

CacheSpec == Init /\ [][CacheNext]_vars

\* The engine with popup messages that carry a language and a hint, on one
\* page with a player that is always found and no ad.
SettingsInputs ==
  [EngineInputs EXCEPT !.langs = Langs \cup {Undefined},
                       !.hints = Hints \cup Falsy,
                       !.ads = {FALSE}, !.found = {TRUE}, !.ens = {TRUE},
                       !.pending = 1]

SettingsNext ==
  \/ TimeUpdate(SettingsInputs)
  \/ ChunksOk
  \/ TranslateOk
  \/ HydrationAborted
  \/ Advance
  \/ SettingsChanged(SettingsInputs)
  \/ StartTranslation(SettingsInputs)
  \/ StopTranslation

SettingsSpec == Init /\ [][SettingsNext]_vars

\* The engine with failing requests and room for a second recovery timer, on
\* one page with a player that is always found and no ad.
TimerInputs ==
  [EngineInputs EXCEPT !.ads = {FALSE}, !.found = {TRUE}, !.ens = {TRUE},
                       !.pending = 1, !.timers = MaxTimers + 1]

TimerNext ==
  \/ TimeUpdate(TimerInputs)
  \/ ChunksOk
  \/ TranslateOk
  \/ HydrationFailed(TimerInputs)
  \/ HydrationAborted
  \/ RecoveryFire
  \/ Advance
  \/ StartTranslation(TimerInputs)
  \/ StopTranslation

TimerSpec == Init /\ [][TimerNext]_vars

\* renderFromWindow on its own: the overlay is attached while an ad plays
\* (so no request is started), then windows of lines that are sorted by start
\* and do not overlap are rendered at every playback position.
RenderTimes == 0..RenderMax

RenderLines ==
  UNION {{[start |-> s, end |-> e, text |-> <<"line", s>>] :
            e \in (s + 1)..RenderMax} : s \in RenderTimes}

Windows ==
  {l \in UNION {[1..n -> RenderLines] : n \in 0..MaxLines} :
     \A i \in 1..(Len(l) - 1) : l[i].end <= l[i + 1].start}

RenderInputs == [EngineInputs EXCEPT !.found = {TRUE}, !.ads = {TRUE}]

RenderCall ==
  /\ overlayEl
  /\ \E l \in Windows, t \in RenderTimes :
       Do([renderFromWindow(World, l, t) EXCEPT
             !.call = [lines |-> l, t |-> t, made |-> TRUE]])

RenderNext == StartTranslation(RenderInputs) \/ RenderCall

RenderSpec == Init /\ [][RenderNext]_vars

\* The engine on one page with a player that is always found, playing back and
\* forth over two cache buckets, with ads and no failing request.  Every
\* handler that sets the caption marks the requests it leaves pending as
\* overtaken.
OrderInputs ==
  [EngineInputs EXCEPT !.pos = {0, PosPerSec}, !.found = {TRUE}, !.ens = {TRUE}]

Shown(w) == IF "render" \in w.fx.did /\ w.overlayEl THEN Overtake(w) ELSE w

OrderTimeUpdate ==
  /\ videoEl
  /\ \E t \in OrderInputs.pos, ad \in OrderInputs.ads :
       DoIn(OrderInputs, Shown(Listened(onTimeTick(World, t, ad))))

OrderRateChange ==
  /\ anonListeners
  /\ \E t \in OrderInputs.pos, ad \in OrderInputs.ads :
       DoIn(OrderInputs,
            Shown(onTimeTick([World EXCEPT !.tickAge = LongAgo], t, ad)))

OrderPause ==
  /\ anonListeners
  /\ Do(Shown(setCaptionText(World, NoText)))

OrderNext ==
  \/ OrderTimeUpdate
  \/ OrderRateChange
  \/ OrderPause
  \/ ChunksOk
  \/ TranslateOk
  \/ HydrationAborted
  \/ Advance
  \/ StartTranslation(OrderInputs)

OrderSpec == Init /\ [][OrderNext]_vars

\* ------------------------------------------------------------------------
\* Properties
\* ------------------------------------------------------------------------
\* fetches that are pending and were not aborted
LiveIds == {r \in ReqIds : reqs[r].stage \in {"chunks", "translate"}}

\* a player event that runs onTimeTick
Tick == TimeUpdate(EngineInputs) \/ Seeked(EngineInputs) \/ RateChange(EngineInputs)

\* the last handler called neither the cache, nor the backend, nor render
NoEffect ==
  /\ fx'.did = {}
  /\ UNCHANGED <<cache, reqs, inflight, caption, mode, recTimers>>

\* C1: at most one hydration request is live at any instant, the live request
\* is the one recorded in state.inflight, and a handler that starts a new
\* request leaves the request that was recorded in state.inflight aborted.
C1_OneLive ==
  /\ Cardinality(LiveIds) <= 1
  /\ \A r \in LiveIds : inflight.ctrl = r

C1_AbortFirst ==
  "fetch" \in fx'.did =>
    \A r \in ReqIds :
      (inflight.ctrl = r /\ reqs[r].stage # "free") => reqs'[r] = AbortedReq

C1_SingleInFlight == [](C1_OneLive) /\ [][C1_AbortFirst]_vars

\* a tick has just replaced a request that was still on the network
C1_Witness ==
  /\ {"fetch", "abort"} \subseteq fx.did
  /\ \E r \in ReqIds : reqs[r] = AbortedReq
  /\ LiveIds # {}

\* C2: the settlement of an aborted request writes no cache entry, renders
\* nothing, does not change mode and arms no recovery timer, whatever newer
\* requests exist.
C2_Settles(r) == reqs[r] = AbortedReq /\ reqs'[r] # AbortedReq

C2_CancelledHasNoEffect ==
  [][(\E r \in ReqIds : C2_Settles(r)) =>
       /\ fx'.did = {"dropped"}
       /\ UNCHANGED <<cache, caption, mode, recTimers, inflight, videoEl, tickAge>>
       /\ \A q \in ReqIds : ~C2_Settles(q) => reqs'[q] = reqs[q]]_vars

\* an aborted request has settled while a newer one is live
C2_Witness == "dropped" \in fx.did /\ LiveIds # {} /\ cache # <<>>

\* C3 as claimed: a tick that arrives while mode is Idle or Error has no
\* effect and leaves state.inflight and state.lastTickAt unchanged.
C3_IgnoredTickChangesNothing ==
  [][(Tick /\ mode # MODES.ACTIVE) =>
       NoEffect /\ tickAge' = tickAge]_vars

\* C4: a failure of the live request while mode is Active sets mode to Error,
\* blanks the caption and arms the recovery timer with the fixed delay; mode
\* leaves Error without a command only when a recovery timer fires, which
\* happens no sooner than the delay and sets mode to Active.
C4_Command ==
  \/ SettingsChanged(EngineInputs) \/ StartTranslation(EngineInputs)
  \/ StopTranslation \/ UrlCheck(EngineInputs)

C4_Failure ==
  (mode = MODES.ACTIVE /\ HydrationFailed(EngineInputs)) =>
    /\ mode' = MODES.ERROR
    /\ caption' = NoText
    /\ recTimers' = Append(recTimers, RECOVERY_DELAY)

C4_Recovery ==
  /\ "recovered" \in fx'.did => (Head(recTimers) = 0 /\ mode' = MODES.ACTIVE)
  /\ (mode = MODES.ERROR /\ mode' # MODES.ERROR /\ ~C4_Command) =>
       (RecoveryFire /\ mode' = MODES.ACTIVE)

C4_FailureThenRecovery == [][C4_Failure /\ C4_Recovery]_vars

\* the recovery timer of a failed request has fired and mode is Active again
C4_Witness ==
  /\ "recovered" \in fx.did
  /\ mode = MODES.ACTIVE
  /\ inflight # NoInflight
  /\ LiveIds = {}

\* C5 as claimed: every cache entry belongs to the current state.videoId.
C5_CacheOfCurrentVideo ==
  \A i \in 1..Len(cache) : cache[i].key.vid = videoId

\* C6: a context change aborts every pending request, sets state.videoId to
\* the video of the new page and leaves no cache entry of the previous video;
\* a request that is live afterwards was started for the new video.
C6_ContextChange ==
  [][("nav" \in fx'.did) =>
       /\ videoId' = getVideoIdFromUrl(href)
       /\ \A r \in ReqIds : reqs[r].stage # "free" =>
            (reqs'[r] = AbortedReq /\ inflight'.ctrl # r)
       /\ \A i \in 1..Len(cache') : cache'[i].key.vid # videoId
       /\ \A r \in ReqIds : reqs'[r].stage \in {"chunks", "translate"} =>
            reqs'[r].ckey.vid = videoId']_vars

\* unexpired entries of the previous video were purged and its request aborted
C6_Witness ==
  /\ {"nav", "purge", "abort"} \subseteq fx.did
  /\ videoId = "v2"
  /\ \E r \in ReqIds : reqs[r] = AbortedReq

\* C7 as claimed: a seeked or ratechange event that arrives in mode Active
\* less than the tick interval after the last processed tick is processed.
C7_SeekAndRateBypassThrottle ==
  [][((Seeked(EngineInputs) \/ RateChange(EngineInputs))
      /\ mode = MODES.ACTIVE /\ videoEl /\ acceptAge < TICK_INTERVAL) =>
       "accept" \in fx'.did]_vars

\* C8 as claimed: a timeupdate event that arrives in mode Active less than the
\* tick interval after a timeupdate event was processed has no effect.
C8_SecondTickDropped ==
  [][(TimeUpdate(EngineInputs)
      /\ mode = MODES.ACTIVE /\ videoEl /\ acceptAge < TICK_INTERVAL) =>
       NoEffect]_vars

\* C9: a lookup returns an entry only if its age is at most the TTL and then
\* leaves the cache unchanged; a lookup that finds an older entry removes
\* exactly that entry and reports a miss.
C9_Lookup ==
  LET i == KeyIndex(cache, fx'.key)
  IN /\ "hit" \in fx'.did <=> (i # 0 /\ cache[i].age <= CACHE_TTL_MS)
     /\ "hit" \in fx'.did => cache' = cache
     /\ (i # 0 /\ cache[i].age > CACHE_TTL_MS) =>
          (cache' = Remove(cache, i) /\ KeyIndex(cache', fx'.key) = 0)
     /\ i = 0 => cache' = cache

C9_NoExpiredEntryReturned ==
  [][("lookup" \in fx'.did /\ "nav" \notin fx'.did) => C9_Lookup]_vars

\* a lookup has found an expired entry and removed it
C9_Witness == "expire" \in fx.did /\ "fetch" \in fx.did

\* C10: the cache never holds more than CACHE_MAX entries; an insertion into
\* a full cache evicts exactly the first entry of the Map, no entry present
\* is older than it, and the entry just inserted stays.
C10_Bounded == Len(cache) <= CACHE_MAX

C10_Insert ==
  LET new == [key |-> fx'.key, age |-> 0, data |-> cache'[Len(cache')].data]
  IN IF KeyIndex(cache, fx'.key) = 0 /\ Len(cache) = CACHE_MAX
     THEN /\ "evict" \in fx'.did
          /\ cache' = Append(Tail(cache), new)
          /\ \A i \in 1..Len(cache) : cache[i].age <= cache[1].age
     ELSE /\ "evict" \notin fx'.did
          /\ KeyIndex(cache, fx'.key) = 0
          /\ cache' = Append(cache, new)

C10_BoundedFifo ==
  [](C10_Bounded) /\ [][("write" \in fx'.did) => C10_Insert]_vars

\* an insertion has evicted an entry while a younger one stayed
C10_Witness ==
  /\ "evict" \in fx.did
  /\ Len(cache) = CACHE_MAX
  /\ \E i \in 1..Len(cache) : cache[i].age > 0

\* C11: for a window sorted by start whose lines do not overlap,
\* renderFromWindow sets the caption to the text of the line with
\* start <= t < end if there is one, else to the text of the line with the
\* smallest start - t among those with 0 < start - t <= CHUNK_AHEAD_SEC, else
\* to the empty string.  (A handler that only renders has called
\* renderFromWindow on the window of `call`.)
C11_Selected(lines, t) ==
  LET span == {i \in 1..Len(lines) : lines[i].start <= t /\ t < lines[i].end}
      near == {i \in 1..Len(lines) :
                 /\ 0 < lines[i].start - t
                 /\ lines[i].start - t <= CHUNK_AHEAD_SEC * PosPerSec}
  IN IF span # {} THEN lines[CHOOSE i \in span : TRUE].text
     ELSE IF near # {}
          THEN lines[CHOOSE i \in near :
                       \A j \in near : lines[i].start <= lines[j].start].text
          ELSE NoText

C11_LineSelection ==
  (call.made /\ fx.did = {"render"}) => caption = C11_Selected(call.lines, call.t)

\* no line spans t, two lines start within the tolerance, the nearer is shown
C11_Witness ==
  /\ call.made
  /\ "render" \in fx.did
  /\ Len(call.lines) = 2
  /\ \A i \in 1..2 : /\ call.lines[i].start > call.t
                     /\ call.lines[i].start - call.t <= CHUNK_AHEAD_SEC * PosPerSec
  /\ caption = call.lines[1].text

\* C12: a tick that is processed while an ad plays blanks the caption and
\* does nothing else: no cache lookup or write, no request started, the
\* request in flight not aborted.
C12_AdInputs == [EngineInputs EXCEPT !.ads = {TRUE}]

C12_AdTick ==
  \/ TimeUpdate(C12_AdInputs) \/ Seeked(C12_AdInputs) \/ RateChange(C12_AdInputs)

C13_Disable ==
  \E found \in EngineInputs.found, t \in EngineInputs.pos, ad \in EngineInputs.ads :
    DoIn(EngineInputs,
         onSettingsChanged(World, FALSE, Undefined, Undefined, found, t, ad))

C13_Stopped ==
  /\ inflight' = NoInflight
  /\ \A r \in ReqIds :
       (inflight.ctrl = r /\ reqs[r].stage # "free") => reqs'[r] = AbortedReq
  /\ ~videoEl' /\ ~overlayEl'
  /\ mode' = MODES.IDLE
  /\ UNCHANGED <<cache, language, hint, videoId>>

C13_StopDetachesAndKeepsCache ==
  [][(StopTranslation \/ C13_Disable) => C13_Stopped]_vars

\* C14 as claimed: mode is Active only while a player has been attached; the
\* attach loop makes at most MAX probes and sets mode to Error when the last
\* one fails.
C14_Probes ==
  /\ \A i \in 1..Len(waits) : waits[i].attempts < MAX
  /\ \A i \in 1..Len(waits') : waits'[i].left <= ATTACH_DELAY
  /\ (WaitFire(EngineInputs) /\ Head(waits).attempts + 1 = MAX /\ ~videoEl') =>
       mode' = MODES.ERROR

C14_BoundedLoop == [][C14_Probes]_vars

C14_ActiveOnlyWhenAttached ==
  [](mode = MODES.ACTIVE => videoEl) /\ C14_BoundedLoop

\* C15 as claimed: after SETTINGS_CHANGED, state.language and state.hint equal
\* every setting the message carries, the empty hint included.
C15_SettingsApplied ==
  [][\A lang \in SettingsInputs.langs, hnt \in SettingsInputs.hints :
       (\E en \in SettingsInputs.ens, found \in SettingsInputs.found,
           t \in SettingsInputs.pos, ad \in SettingsInputs.ads :
          DoIn(SettingsInputs,
               onSettingsChanged(World, en, lang, hnt, found, t, ad))) =>
         /\ (lang # Undefined => language' = lang)
         /\ (hnt # Undefined => hint' = hnt)]_vars

\* C16: play and pause set the caption to the empty string and do nothing
\* else: no cache lookup or write, no request started or aborted, mode and
\* state.lastTickAt unchanged.
C16_PlayPauseOnlyBlank ==
  [][(anonListeners /\ (Play \/ Pause)) =>
       /\ fx'.did = {"render"}
       /\ overlayEl => caption' = NoText
       /\ UNCHANGED <<mode, enabled, language, hint, videoEl, overlayEl, lastUrl,
                      videoId, tickAge, inflight, cache, anonListeners, href,
                      reqs, recTimers, waits>>]_vars

\* play or pause has blanked the caption while a request was in flight and an
\* entry was cached
C16_Witness ==
  /\ fx.did = {"render"}
  /\ ~call.made
  /\ mode = MODES.ACTIVE
  /\ LiveIds # {}
  /\ cache # <<>>
  /\ caption = NoText

\* C17: START_TRANSLATION received while mode is Error sets mode to Active in
\* the same step, whatever the recovery timer has left.
C17_StartLeavesErrorAtOnce ==
  [][(mode = MODES.ERROR /\ StartTranslation(EngineInputs)) =>
       mode' = MODES.ACTIVE]_vars

\* mode is Active, the old player still attached and a new attach loop
\* waiting, while the recovery timer of the failure has time left
C17_Witness ==
  /\ mode = MODES.ACTIVE
  /\ videoEl
  /\ waits # <<>>
  /\ recTimers # <<>>
  /\ Head(recTimers) > 0

\* C18 as claimed: at most one recovery timer is pending at any time.
C18_OneRecoveryTimer == Len(recTimers) <= 1

\* C19 as claimed: while mode is Idle, only SETTINGS_CHANGED, START_TRANSLATION
\* or a URL change makes mode leave Idle or attaches the player.
C19_Enabling ==
  \/ SettingsChanged(EngineInputs) \/ StartTranslation(EngineInputs)
  \/ UrlCheck(EngineInputs)

C19_IdleUntilEnabled ==
  [][(mode = MODES.IDLE /\ ~C19_Enabling) =>
       (mode' = MODES.IDLE /\ (videoEl' => videoEl))]_vars

\* C20 as claimed: the lines of every cache entry were translated to the
\* language of its key.
C20_EntryInKeyLanguage ==
  \A i \in 1..Len(cache) : cache[i].data.lang = cache[i].key.lang

\* C21 as claimed: once a later processed tick has set the caption (cache hit
\* or ad) or a pause has blanked it, the result of a request started by an
\* earlier tick is not rendered.
C21_Applied(r) ==
  /\ reqs[r].stage = "translate"
  /\ reqs'[r].stage = "free"
  /\ "write" \in fx'.did

C21_LatestWins ==
  [][\A r \in ReqIds :
       (reqs[r].overtaken /\ C21_Applied(r)) => "render" \notin fx'.did]_vars

\* C22 as claimed: while mode is Error, however it was entered, the caption is
\* empty and no handler writes to the cache or sets another caption; a request
\* that was in flight when mode became Error is not applied.
C22_Quiet ==
  (mode = MODES.ERROR /\ mode' = MODES.ERROR) =>
    ("write" \notin fx'.did /\ caption' = NoText)

C22_ErrorIsQuiet ==
  [](mode = MODES.ERROR => caption = NoText) /\ [][C22_Quiet]_vars

====
